---- MODULE Spec2Model ----
(***************************************************************************)
(* binboh (src/src/main.rs): a command wrapper that skips a command when   *)
(* the hashes of its declared input and output files equal the ones stored *)
(* by the last successful run of the same call.                            *)
(*                                                                         *)
(* The file system and the cache directory are shared state; every call of *)
(* the tool is a process walking through main().                           *)
(***************************************************************************)
EXTENDS Integers, Sequences, FiniteSets, TLC

(* ------------------------------ bounds --------------------------------- *)
\* number of calls of the tool and of changes made from outside the tool in
\* one behaviour
MaxEvents == 3

(* --------------------------- the environment --------------------------- *)
\* the tool's processes; the sequential specification uses the first one
Procs == {1, 2}
SeqProcs == {1}

\* the files the calls declare (absolute paths: the same file from every
\* working directory)
Paths == {"/a", "/b"}
Contents == {"x", "y"}
\* what open()/read() of a path can find
ABSENT == "ENOENT"
DENIED == "EACCES"
FileStates == Contents \cup {ABSENT, DENIED}
AllFs == [Paths -> FileStates]

\* bytes of a directory name that are not valid UTF-8
InvalidBytes == {"\\xFE", "\\xFF"}
REPLACEMENT == "U+FFFD"

\* the calls (Args plus the working directory) the processes are started with
Calls ==
  << [pwd |-> <<"/w", "\\xFE">>, inputs |-> <<"/a">>,       outputs |-> <<"/b">>, command |-> <<"copy", "/a", "/b">>],
     [pwd |-> <<"/w", "\\xFF">>, inputs |-> <<"/a">>,       outputs |-> <<"/b">>, command |-> <<"copy", "/a", "/b">>],
     [pwd |-> <<"/w">>,          inputs |-> <<"/a", "/b">>, outputs |-> <<"/b">>, command |-> <<"touch", "/b">>],
     [pwd |-> <<"/w">>,          inputs |-> <<>>,           outputs |-> <<>>,     command |-> <<"true">>] >>
CallIds == DOMAIN Calls
NoCall == 0

Range(s) == {s[k] : k \in DOMAIN s}

(* ------------------------------ hashing -------------------------------- *)
\* blake3 of a byte string, hex encoded; taken to be free of collisions
Blake3Hex(bytes) == "blake3:" \o bytes

\* the fallback every caller of hash_file passes
FALLBACK == "doesnotexist"

\* hash_file(file_path, Some("doesnotexist")): Ok(hash) or Err
hash_file(files, file_path) ==
  CASE files[file_path] = ABSENT -> [ok |-> TRUE,  hash |-> FALLBACK]
    [] files[file_path] = DENIED -> [ok |-> FALSE, hash |-> ""]
    [] OTHER                     -> [ok |-> TRUE,  hash |-> Blake3Hex(files[file_path])]

\* as hash_files, with a key for every known path, declared or not
hash_files_all(files, list) ==
  IF \E f \in Range(list) : ~hash_file(files, f).ok
  THEN [ok |-> FALSE, map |-> [f \in {} |-> ""]]
  ELSE [ok |-> TRUE,  map |-> [f \in Paths |-> hash_file(files, f).hash]]

\* iter().map(hash_file).collect::<Result<HashMap>>(): Err when one file fails
hash_files(files, list) ==
  IF \E f \in Range(list) : ~hash_file(files, f).ok
  THEN [ok |-> FALSE, map |-> [f \in {} |-> ""]]
  ELSE [ok |-> TRUE,  map |-> [f \in Range(list) |-> hash_file(files, f).hash]]

\* PathBuf::to_string_lossy: every invalid byte becomes U+FFFD
to_string_lossy(path) ==
  [k \in DOMAIN path |-> IF path[k] \in InvalidBytes THEN REPLACEMENT ELSE path[k]]

\* format!("{:?}", d) of the IndexMap: the four entries in insertion order
DebugFormat(c) ==
  << <<"pwd", <<to_string_lossy(c.pwd)>> >>,
     <<"inputs", c.inputs>>,
     <<"outputs", c.outputs>>,
     <<"command", c.command>> >>

\* Args::hash: the hex digest of the formatted map; blake3 is taken to be
\* free of collisions, so the digest stands for the text it was made from
Hash(c) == <<"blake3", DebugFormat(c)>>

Fingerprints == {Hash(Calls[i]) : i \in CallIds}
NoHash == << >>

\* as cache_file, with one file for all calls
cache_file_flat(call_hash) == Hash(Calls[1])

\* cache_dir.join(h[0..2]).join(h[2..4]).join(h + ".json"): the last part of
\* the path is the whole fingerprint, so the fingerprint stands for the path
cache_file(call_hash) == call_hash

(* ----------------------------- cache files ----------------------------- *)
EmptyMap == [f \in {} |-> ""]
NoHashes == [inputs |-> EmptyMap, outputs |-> EmptyMap]
\* a cache file: missing; there but not to be opened; with content that
\* does not deserialize into a Hashes; created or truncated and not yet
\* written to its end (empty, or the beginning of a JSON text); or the JSON
\* of a Hashes
NoFile      == [kind |-> "nofile",  hashes |-> NoHashes]
DeniedFile  == [kind |-> "denied",  hashes |-> NoHashes]
CorruptFile == [kind |-> "corrupt", hashes |-> NoHashes]
PartialFile == [kind |-> "partial", hashes |-> NoHashes]
JsonFile(h) == [kind |-> "json",    hashes |-> h]

\* Hashes a foreign writer may leave in a cache file: maps that record the
\* hash of x for some of the paths
ExternalMaps ==
  { <<{}, {}>>, <<{"/b"}, {"/b"}>>, <<{"/a"}, {}>> }
ExternalFiles ==
  {NoFile, DeniedFile, CorruptFile}
    \cup {JsonFile([inputs  |-> [f \in m[1] |-> Blake3Hex("x")],
                    outputs |-> [f \in m[2] |-> Blake3Hex("x")]]) : m \in ExternalMaps}

\* number of characters of a digest in hex (to_hex of 32 bytes)
HexLen == 64
ValueLen(v) == IF v = FALLBACK THEN Len(FALLBACK) ELSE HexLen

RECURSIVE MapLen(_, _)
\* characters of the entries "path":"hash", of a map, over the keys in S
MapLen(m, S) ==
  IF S = {} THEN 0
  ELSE LET f == CHOOSE g \in S : TRUE
       IN  Len(f) + ValueLen(m[f]) + 6 + MapLen(m, S \ {f})

\* number of characters of the JSON text serde_json writes for a Hashes
JsonLen(h) ==
  Len("{\"inputs\":{},\"outputs\":{}}")
    + MapLen(h.inputs, DOMAIN h.inputs) + MapLen(h.outputs, DOMAIN h.outputs)

\* as to_writer, on a file handle that replaces the file as a whole
to_writer_atomic(file, h) == {JsonFile(h)}

\* serde_json::to_writer(file, &hashes) on the handle File::create gave:
\* the text goes to the start of whatever the path holds by now and leaves
\* what lies behind its end. A longer JSON text that another call wrote in
\* the meantime keeps its tail, and the file does not parse; of a file of
\* unknown length either can be true. A file that was removed or locked in
\* the meantime stays so for the readers.
to_writer(file, h) ==
  CASE file.kind = "partial" -> {JsonFile(h)}
    [] file.kind = "json"    -> IF JsonLen(file.hashes) > JsonLen(h)
                                THEN {CorruptFile}
                                ELSE {JsonFile(h)}
    [] file.kind = "corrupt" -> {CorruptFile, JsonFile(h)}
    [] OTHER                 -> {file}

\* Option<Hashes>
None    == [some |-> FALSE, hashes |-> NoHashes]
Some(h) == [some |-> TRUE,  hashes |-> h]

\* as from_reader, taking a file that is not written to its end for what it
\* holds so far
from_reader_lenient(file) ==
  IF file.kind \in {"json", "partial"} THEN Some(file.hashes) ELSE None

\* as from_reader, with a default Hashes for a file that does not parse
from_reader_default(file) ==
  IF file.kind = "nofile" THEN None ELSE Some(file.hashes)

\* serde_json::from_reader(file).ok()
from_reader(file) ==
  IF file.kind = "json" THEN Some(file.hashes) ELSE None

(* ------------------------------- decision ------------------------------ *)
\* as InputLoop, without the comparison
InputLoop_unchecked(list, k, input_hashes, prev) == "next"

RECURSIVE InputLoop(_, _, _, _)
\* the loop over self.inputs; indexing a HashMap with a missing key panics
InputLoop(list, k, input_hashes, prev) ==
  IF k > Len(list) THEN "next"
  ELSE IF list[k] \notin DOMAIN prev.inputs THEN "panic"
  ELSE IF input_hashes[list[k]] # prev.inputs[list[k]] THEN "run"
  ELSE InputLoop(list, k + 1, input_hashes, prev)

\* as OutputLoop, taking an empty list of outputs as a reason to run
OutputLoop_nonempty(list, k, files, prev) ==
  IF Len(list) = 0 THEN "run" ELSE "skip"

\* as OutputLoop, without the comparison
OutputLoop_unchecked(list, k, files, prev) == "skip"

RECURSIVE OutputLoop(_, _, _, _)
\* the loop over self.outputs; unwrap() of an Err panics, as does a missing key
OutputLoop(list, k, files, prev) ==
  IF k > Len(list) THEN "skip"
  ELSE IF ~hash_file(files, list[k]).ok THEN "panic"
  ELSE IF list[k] \notin DOMAIN prev.outputs THEN "panic"
  ELSE IF hash_file(files, list[k]).hash # prev.outputs[list[k]] THEN "run"
  ELSE OutputLoop(list, k + 1, files, prev)

\* as needs_to_run, returning true after the loops as well
needs_to_run_eager(c, input_hashes, previous_run, files) ==
  IF previous_run.some
  THEN LET r == InputLoop(c.inputs, 1, input_hashes, previous_run.hashes)
           o == OutputLoop(c.outputs, 1, files, previous_run.hashes)
       IN  IF r = "next"
           THEN (IF o = "skip" THEN "run" ELSE o)
           ELSE r
  ELSE "run"

\* Args::needs_to_run: "run" (true), "skip" (false) or "panic"
needs_to_run(c, input_hashes, previous_run, files) ==
  IF previous_run.some
  THEN LET r == InputLoop(c.inputs, 1, input_hashes, previous_run.hashes)
       IN  IF r = "next"
           THEN OutputLoop(c.outputs, 1, files, previous_run.hashes)
           ELSE r
  ELSE "run"

(* ------------------------------ the child ------------------------------ *)
ChildCodes == {0, 3}
\* ExitStatus: an exit code, or none when the child was killed by a signal
ChildStatuses ==
  {[has_code |-> TRUE, code |-> n] : n \in ChildCodes}
    \cup {[has_code |-> FALSE, code |-> 0]}
NoStatus == [has_code |-> FALSE, code |-> 0]
\* what a child can leave behind: it writes at most one declared file
ChildEffects(files) ==
  {files} \cup {[files EXCEPT ![f] = s] : f \in Paths, s \in Contents}
\* as success, true of every status
success_any(st) == TRUE
\* status.success()
success(st) == st.has_code /\ st.code = 0
\* as ChildExit, without the code of the child
ChildExit_one(st) == 1
\* status.code().unwrap_or(1)
ChildExit(st) == IF st.has_code THEN st.code ELSE 1

\* exit codes of the tool itself
OkExit == 0
FatalExit == 1
PanicExit == 101
NoExit == -1

(* -------------------------------- state -------------------------------- *)
VARIABLES
  fs,            \* the declared files
  cache,         \* cache file of every fingerprint
  pc,            \* where each process is in main()
  call,          \* the call a process was started with
  call_hash,     \* fingerprint of the call
  previous_run,  \* the loaded Option<Hashes>
  input_hashes,  \* hashes of the inputs, taken before the decision
  status,        \* exit status of the child
  hashes,        \* the Hashes about to be written
  outcome,       \* how the call ended: "skip", "ran", "failed" (the child),
                 \* "nospawn", "panic" or "fatal_" and the failing step
  exit_code,     \* exit code of the tool
  fs0,           \* history: fs when the call started
  cache0,        \* history: cache when the call started
  writer,        \* history: who wrote each cache file last
  prev_writer,   \* history: who had written the cache file a call loaded
  found,         \* history: kind of the cache file a call found when loading
  fsIn,          \* history: fs when the inputs were hashed
  last,          \* history: the last call that ran its command and saved
  events         \* number of calls started and of outside changes

vars == <<fs, cache, pc, call, call_hash, previous_run, input_hashes, status,
          hashes, outcome, exit_code, fs0, cache0, writer, prev_writer, found, fsIn,
          last, events>>
locals == <<call, call_hash, previous_run, input_hashes, status, hashes,
            prev_writer, found>>

NoWriter == 0
External == -1
NoFs == [f \in Paths |-> ABSENT]
NoCache == [h \in Fingerprints |-> NoFile]
NoLast == [id |-> NoCall, fsPre |-> NoFs, fsEnd |-> NoFs, entry |-> NoFile]

Init ==
  /\ fs = [f \in Paths |-> IF f = "/a" THEN "x" ELSE ABSENT]
  /\ cache = NoCache
  /\ pc = [p \in Procs |-> "idle"]
  /\ call = [p \in Procs |-> NoCall]
  /\ call_hash = [p \in Procs |-> NoHash]
  /\ previous_run = [p \in Procs |-> None]
  /\ input_hashes = [p \in Procs |-> EmptyMap]
  /\ status = [p \in Procs |-> NoStatus]
  /\ hashes = [p \in Procs |-> NoHashes]
  /\ outcome = [p \in Procs |-> "none"]
  /\ exit_code = [p \in Procs |-> NoExit]
  /\ fs0 = [p \in Procs |-> NoFs]
  /\ cache0 = [p \in Procs |-> NoCache]
  /\ writer = [h \in Fingerprints |-> NoWriter]
  /\ prev_writer = [p \in Procs |-> NoWriter]
  /\ found = [p \in Procs |-> "none"]
  /\ fsIn = [p \in Procs |-> NoFs]
  /\ last = NoLast
  /\ events = 0

\* the process ends with the given outcome and exit code
End(p, how, code) ==
  /\ pc' = [pc EXCEPT ![p] = "done"]
  /\ outcome' = [outcome EXCEPT ![p] = how]
  /\ exit_code' = [exit_code EXCEPT ![p] = code]
Goto(p, label) ==
  /\ pc' = [pc EXCEPT ![p] = label]
  /\ UNCHANGED <<outcome, exit_code>>

(* ------------------------------- main() -------------------------------- *)
\* no process is inside main()
Quiet == \A p \in Procs : pc[p] = "idle"

\* Args::parse(): the process starts with call i (clap rejects an empty
\* command, so command.is_empty() is never true)
Start(p, i) ==
  /\ pc[p] = "idle"
  /\ events < MaxEvents
  /\ events' = events + 1
  /\ call' = [call EXCEPT ![p] = i]
  /\ fs0' = [fs0 EXCEPT ![p] = fs]
  /\ cache0' = [cache0 EXCEPT ![p] = cache]
  /\ Goto(p, "hash")
  /\ UNCHANGED <<fs, cache, call_hash, previous_run, input_hashes, status,
                 hashes, writer, prev_writer, found, fsIn, last>>

\* dirs::cache_dir() and call.hash(): either can fail, else the fingerprint
ArgsHash(p) ==
  /\ pc[p] = "hash"
  /\ \E ok \in BOOLEAN :
       IF ok
       THEN /\ call_hash' = [call_hash EXCEPT ![p] = Hash(Calls[call[p]])]
            /\ Goto(p, "load")
       ELSE /\ End(p, "fatal_dirs", FatalExit)
            /\ UNCHANGED call_hash
  /\ UNCHANGED <<fs, cache, call, previous_run, input_hashes, status, hashes,
                 fs0, cache0, writer, prev_writer, found, fsIn, last, events>>

\* cache_file.exists(), File::open, serde_json::from_reader(file).ok()
Load(p) ==
  /\ pc[p] = "load"
  /\ LET file == cache[cache_file(call_hash[p])]
     IN  CASE file.kind = "nofile" ->
                /\ previous_run' = [previous_run EXCEPT ![p] = None]
                /\ Goto(p, "inputs")
           [] file.kind = "denied" ->
                /\ End(p, "fatal_open", FatalExit)
                /\ UNCHANGED previous_run
           [] OTHER ->
                /\ previous_run' = [previous_run EXCEPT ![p] = from_reader(file)]
                /\ Goto(p, "inputs")
  /\ prev_writer' = [prev_writer EXCEPT ![p] = writer[cache_file(call_hash[p])]]
  /\ found' = [found EXCEPT ![p] = cache[cache_file(call_hash[p])].kind]
  /\ UNCHANGED <<fs, cache, call, call_hash, input_hashes, status, hashes,
                 fs0, cache0, writer, fsIn, last, events>>

\* let input_hashes = call.inputs.iter().map(hash_file).collect()?
HashInputs(p) ==
  /\ pc[p] = "inputs"
  /\ LET r == hash_files(fs, Calls[call[p]].inputs)
     IN  IF r.ok
         THEN /\ input_hashes' = [input_hashes EXCEPT ![p] = r.map]
              /\ fsIn' = [fsIn EXCEPT ![p] = fs]
              /\ Goto(p, "decide")
         ELSE /\ End(p, "fatal_inputs", FatalExit)
              /\ UNCHANGED <<input_hashes, fsIn>>
  /\ UNCHANGED <<fs, cache, call, call_hash, previous_run, status, hashes,
                 fs0, cache0, writer, prev_writer, found, last, events>>

\* if !call.needs_to_run(..) { println!("Skipped: ..."); return Ok(()) }
Decide(p) ==
  /\ pc[p] = "decide"
  /\ LET r == needs_to_run(Calls[call[p]], input_hashes[p], previous_run[p], fs)
     IN  CASE r = "skip"  -> End(p, "skip", OkExit)
           [] r = "panic" -> End(p, "panic", PanicExit)
           [] OTHER       -> Goto(p, "run")
  /\ UNCHANGED <<fs, cache, locals, fs0, cache0, writer, prev_writer, fsIn, last, events>>

\* Command::new(..).status()?: the spawn fails, or the child runs, changes
\* files as it likes and ends with some status
RunCommand(p) ==
  /\ pc[p] = "run"
  /\ \/ /\ End(p, "nospawn", FatalExit)
        /\ UNCHANGED <<fs, status>>
     \/ \E files \in ChildEffects(fs), st \in ChildStatuses :
          /\ fs' = files
          /\ status' = [status EXCEPT ![p] = st]
          /\ IF success(st)
             THEN Goto(p, "outputs")
             ELSE End(p, "failed", ChildExit(st))
  /\ UNCHANGED <<cache, call, call_hash, previous_run, input_hashes, hashes,
                 fs0, cache0, writer, prev_writer, found, fsIn, last, events>>

\* as HashOutputs, hashing the inputs again after the command
HashOutputs_rehash(p) ==
  /\ pc[p] = "outputs"
  /\ LET r == hash_files(fs, Calls[call[p]].outputs)
         i == hash_files(fs, Calls[call[p]].inputs)
     IN  IF r.ok /\ i.ok
         THEN /\ hashes' = [hashes EXCEPT ![p] =
                              [inputs |-> i.map, outputs |-> r.map]]
              /\ Goto(p, "create")
         ELSE /\ End(p, "fatal_outputs", FatalExit)
              /\ UNCHANGED hashes
  /\ UNCHANGED <<fs, cache, call, call_hash, previous_run, input_hashes, status,
                 fs0, cache0, writer, prev_writer, found, fsIn, last, events>>

\* let hashes = Hashes { inputs: input_hashes, outputs: ..collect()? }
HashOutputs(p) ==
  /\ pc[p] = "outputs"
  /\ LET r == hash_files(fs, Calls[call[p]].outputs)
     IN  IF r.ok
         THEN /\ hashes' = [hashes EXCEPT ![p] =
                              [inputs |-> input_hashes[p], outputs |-> r.map]]
              /\ Goto(p, "create")
         ELSE /\ End(p, "fatal_outputs", FatalExit)
              /\ UNCHANGED hashes
  /\ UNCHANGED <<fs, cache, call, call_hash, previous_run, input_hashes, status,
                 fs0, cache0, writer, prev_writer, found, fsIn, last, events>>

\* as CreateFile, removing an old cache file where CreateFile truncates it
CreateFile_remove(p) ==
  /\ pc[p] = "create"
  /\ cache' = [cache EXCEPT ![cache_file(call_hash[p])] =
                 IF @.kind = "nofile" THEN PartialFile ELSE NoFile]
  /\ writer' = [writer EXCEPT ![cache_file(call_hash[p])] = call[p]]
  /\ Goto(p, "write")
  /\ UNCHANGED <<fs, locals, fs0, cache0, fsIn, last, events>>

\* fs::create_dir_all(..)? and fs::File::create(&cache_file)?: the file is
\* created or truncated, or the call fails
CreateFile(p) ==
  /\ pc[p] = "create"
  /\ \/ /\ End(p, "fatal_create", FatalExit)
        /\ UNCHANGED <<cache, writer>>
     \/ /\ cache[cache_file(call_hash[p])].kind # "denied"
        /\ cache' = [cache EXCEPT ![cache_file(call_hash[p])] = PartialFile]
        /\ writer' = [writer EXCEPT ![cache_file(call_hash[p])] = call[p]]
        /\ Goto(p, "write")
  /\ UNCHANGED <<fs, locals, fs0, cache0, fsIn, last, events>>

\* serde_json::to_writer(file, &hashes)?; Ok(())
WriteFile(p) ==
  /\ pc[p] = "write"
  /\ \/ /\ End(p, "fatal_write", FatalExit)
        /\ UNCHANGED <<cache, writer, last>>
     \/ /\ \E file \in to_writer(cache[cache_file(call_hash[p])], hashes[p]) :
             cache' = [cache EXCEPT ![cache_file(call_hash[p])] = file]
        /\ writer' = [writer EXCEPT ![cache_file(call_hash[p])] = call[p]]
        /\ last' = [id |-> call[p], fsPre |-> fsIn[p], fsEnd |-> fs,
                    entry |-> JsonFile(hashes[p])]
        /\ End(p, "ran", OkExit)
  /\ UNCHANGED <<fs, locals, fs0, cache0, fsIn, events>>

\* the process is gone
Exit(p) ==
  /\ pc[p] = "done"
  /\ pc' = [pc EXCEPT ![p] = "idle"]
  /\ outcome' = [outcome EXCEPT ![p] = "none"]
  /\ exit_code' = [exit_code EXCEPT ![p] = NoExit]
  /\ call' = [call EXCEPT ![p] = NoCall]
  /\ call_hash' = [call_hash EXCEPT ![p] = NoHash]
  /\ previous_run' = [previous_run EXCEPT ![p] = None]
  /\ input_hashes' = [input_hashes EXCEPT ![p] = EmptyMap]
  /\ status' = [status EXCEPT ![p] = NoStatus]
  /\ hashes' = [hashes EXCEPT ![p] = NoHashes]
  /\ prev_writer' = [prev_writer EXCEPT ![p] = NoWriter]
  /\ found' = [found EXCEPT ![p] = "none"]
  /\ fs0' = [fs0 EXCEPT ![p] = NoFs]
  /\ cache0' = [cache0 EXCEPT ![p] = NoCache]
  /\ fsIn' = [fsIn EXCEPT ![p] = NoFs]
  /\ UNCHANGED <<fs, cache, writer, last, events>>

(* ------------------------- outside the tool ---------------------------- *)
\* somebody writes, deletes or locks a declared file between two calls
ChangeFile(f, s) ==
  /\ Quiet
  /\ events < MaxEvents
  /\ fs[f] # s
  /\ fs' = [fs EXCEPT ![f] = s]
  /\ events' = events + 1
  /\ UNCHANGED <<cache, pc, locals, outcome, exit_code, fs0, cache0, writer,
                 fsIn, last>>

\* somebody deletes, locks, damages or rewrites a cache file between two calls
ChangeCache(h, file) ==
  /\ Quiet
  /\ events < MaxEvents
  /\ cache[h] # file
  /\ cache' = [cache EXCEPT ![h] = file]
  /\ writer' = [writer EXCEPT ![h] = External]
  /\ events' = events + 1
  /\ UNCHANGED <<fs, pc, locals, outcome, exit_code, fs0, cache0, fsIn, last>>

Step(p) ==
  \/ \E i \in CallIds : Start(p, i)
  \/ ArgsHash(p)
  \/ Load(p)
  \/ HashInputs(p)
  \/ Decide(p)
  \/ RunCommand(p)
  \/ HashOutputs(p)
  \/ CreateFile(p)
  \/ WriteFile(p)
  \/ Exit(p)

Outside ==
  \/ \E f \in Paths, s \in FileStates : ChangeFile(f, s)
  \/ \E h \in Fingerprints, file \in ExternalFiles : ChangeCache(h, file)

\* one call at a time
Next == (\E p \in SeqProcs : Step(p)) \/ Outside

Spec == Init /\ [][Next]_vars

(* --------------------------- concurrent calls -------------------------- *)
\* main() of one call, from its start to its end
Call(p) ==
  \/ \E i \in CallIds : Start(p, i)
  \/ ArgsHash(p)
  \/ Load(p)
  \/ HashInputs(p)
  \/ Decide(p)
  \/ RunCommand(p)
  \/ HashOutputs(p)
  \/ CreateFile(p)
  \/ WriteFile(p)

\* somebody put, damaged or locked one cache file before the calls started
Prepared ==
  /\ events = 0
  /\ \E h \in Fingerprints, file \in ExternalFiles : ChangeCache(h, file)

\* two calls of the tool with their steps interleaved in any order: the
\* tool takes no lock
NextConc == (\E p \in Procs : Call(p)) \/ Prepared

SpecConc == Init /\ [][NextConc]_vars

TypeOK ==
  /\ fs \in AllFs
  /\ \A p \in Procs : pc[p] \in {"idle", "hash", "load", "inputs", "decide",
                                 "run", "outputs", "create", "write", "done"}
  /\ events \in 0..MaxEvents

(* ------------------------------ properties ----------------------------- *)
Inputs(p) == Range(Calls[call[p]].inputs)
Outputs(p) == Range(Calls[call[p]].outputs)

\* needs_to_run was called and came back or panicked
Decided(p) ==
  \/ pc[p] \in {"run", "outputs", "create", "write"}
  \/ pc[p] = "done" /\ outcome[p] \notin {"fatal_dirs", "fatal_open", "fatal_inputs"}

\* needs_to_run returned true: the command was or is about to be started
MustRun(p) ==
  \/ pc[p] \in {"run", "outputs", "create", "write"}
  \/ pc[p] = "done" /\ outcome[p] \notin {"fatal_dirs", "fatal_open", "fatal_inputs", "skip", "panic"}

\* the call of p has ended; it had resolved its directories, it has the
\* arguments of the last call that ran its command and saved, and it began
\* with the declared files and the cache file that call left behind
Repeats(p) ==
  /\ pc[p] = "done"
  /\ call_hash[p] # NoHash
  /\ last.id = call[p]
  /\ \A f \in Inputs(p) \cup Outputs(p) : fs0[p][f] = last.fsEnd[f]
  /\ cache0[p][call_hash[p]] = last.entry

\* the command of the last saved call left the declared inputs of p as
\* they were when that call hashed them
InputsKept(p) ==
  \A f \in Inputs(p) : last.fsPre[f] = last.fsEnd[f]

\* C1 as stated: a call that repeats the last successful call, with no
\* declared file and no cache file changed in between, reports skip.
C1_Original ==
  \A p \in Procs : Repeats(p) => outcome[p] = "skip"

\* C1, amended: a call that repeats the last successful call, with no
\* declared file and no cache file changed in between, reports skip and does
\* not run the command, provided the command of that successful call did not
\* itself change a declared input after it was hashed.
C1_Idempotence ==
  \A p \in Procs : (Repeats(p) /\ InputsKept(p)) => outcome[p] = "skip"

C1_Witness ==
  \E p \in Procs :
    /\ Repeats(p) /\ InputsKept(p)
    /\ Inputs(p) # {} /\ Outputs(p) # {}
    /\ outcome[p] = "skip"

\* the entry p loaded is a snapshot stored by the tool
LoadedSnapshot(p) ==
  /\ previous_run[p].some
  /\ prev_writer[p] \in CallIds

\* the Hashes of the files as they are: inputs as hashed at the start
SnapshotNow(p) ==
  [inputs  |-> [f \in Inputs(p) |-> hash_file(fsIn[p], f).hash],
   outputs |-> [f \in Outputs(p) |-> hash_file(fs, f).hash]]

\* C2: when a declared input differs, at the start of a call, from the state
\* the stored snapshot of the fingerprint records for it, the decision is to
\* run the command, not to skip; and a call that ran the command
\* successfully has stored the new snapshot when it ends.
C2_InputInvalidation ==
  \A p \in Procs :
    /\ ( /\ Decided(p)
         /\ LoadedSnapshot(p)
         /\ \E f \in Inputs(p) :
              hash_file(fs0[p], f).hash # previous_run[p].hashes.inputs[f] )
       => MustRun(p)
    /\ (pc[p] = "done" /\ outcome[p] = "ran")
       => cache[call_hash[p]] = JsonFile(SnapshotNow(p))

C2_Witness ==
  \E p \in Procs :
    /\ pc[p] = "done" /\ outcome[p] = "ran"
    /\ LoadedSnapshot(p)
    /\ \E f \in Inputs(p) :
         /\ input_hashes[p][f] # previous_run[p].hashes.inputs[f]
         /\ cache[call_hash[p]].hashes.inputs[f] = input_hashes[p][f]
    /\ \A f \in Outputs(p) :
         hash_file(fs0[p], f).hash = previous_run[p].hashes.outputs[f]

\* C3: when, after a successful run, a declared output was deleted, created
\* or changed before the next call of the same fingerprint, and the declared
\* outputs can be read, the decision of that call is to run the command,
\* also when no declared input changed.
C3_OutputInvalidation ==
  \A p \in Procs :
    ( /\ Decided(p)
      /\ last.id = call[p]
      /\ cache0[p][call_hash[p]] = last.entry
      /\ \A f \in Outputs(p) : fs0[p][f] # DENIED
      /\ \E f \in Outputs(p) : fs0[p][f] # last.fsEnd[f] )
    => MustRun(p)

C3_Witness ==
  \E p \in Procs :
    /\ pc[p] = "run"
    /\ last.id = call[p]
    /\ cache0[p][call_hash[p]] = last.entry
    /\ \A f \in Inputs(p) : fs0[p][f] = last.fsPre[f]
    /\ \E f \in Outputs(p) : fs0[p][f] # last.fsEnd[f] /\ fs0[p][f] # DENIED

\* C4: a call whose command ran and did not succeed has written no cache
\* file, has left the cache as it found it, and exits with the exit code of
\* the child, or with 1 when the child has none.
C4_FailureNonPoisoning ==
  \A p \in Procs :
    (pc[p] = "done" /\ outcome[p] = "failed")
    => /\ ~(status[p].has_code /\ status[p].code = 0)
       /\ cache = cache0[p]
       /\ exit_code[p] = IF status[p].has_code THEN status[p].code ELSE 1

C4_Witness ==
  \E p \in Procs :
    /\ pc[p] = "done" /\ outcome[p] = "failed"
    /\ cache[call_hash[p]].kind = "json"
    /\ status[p].has_code /\ exit_code[p] = 3

\* every state the loaded entry records equals the state of the file now
AllMatch(p) ==
  /\ previous_run[p].some
  /\ \A f \in Inputs(p) :
       /\ f \in DOMAIN previous_run[p].hashes.inputs
       /\ input_hashes[p][f] = previous_run[p].hashes.inputs[f]
  /\ \A f \in Outputs(p) :
       /\ fs0[p][f] # DENIED
       /\ f \in DOMAIN previous_run[p].hashes.outputs
       /\ hash_file(fs0[p], f).hash = previous_run[p].hashes.outputs[f]

\* there is no entry, or a recorded state differs from the state of the file
SomeDiffers(p) ==
  \/ ~previous_run[p].some
  \/ \E f \in Inputs(p) :
       /\ f \in DOMAIN previous_run[p].hashes.inputs
       /\ input_hashes[p][f] # previous_run[p].hashes.inputs[f]
  \/ \E f \in Outputs(p) :
       /\ fs0[p][f] # DENIED
       /\ f \in DOMAIN previous_run[p].hashes.outputs
       /\ hash_file(fs0[p], f).hash # previous_run[p].hashes.outputs[f]

\* C5: needs_to_run returns false exactly when an entry was loaded and every
\* declared input and output has the state the entry records for it, and it
\* returns true when there is no entry or one of these states differs.
C5_DecisionContract ==
  \A p \in Procs :
    Decided(p) =>
      /\ (pc[p] = "done" /\ outcome[p] = "skip") <=> AllMatch(p)
      /\ SomeDiffers(p) => MustRun(p)

\* the cache file the call found was there but was no JSON of a Hashes
FoundCorrupt(p) ==
  /\ pc[p] \notin {"idle", "hash", "load"}
  /\ call_hash[p] # NoHash
  /\ cache0[p][call_hash[p]].kind \in {"corrupt", "partial"}

\* C6: a call that finds a cache file that does not parse does not fail on
\* it: it goes on with no previous run, decides to run the command, and when
\* the command succeeded and the call ends well the file holds the fresh
\* snapshot.
C6_CorruptIsMiss ==
  \A p \in Procs :
    FoundCorrupt(p) =>
      /\ outcome[p] # "fatal_open"
      /\ ~previous_run[p].some
      /\ Decided(p) => MustRun(p)
      /\ (pc[p] = "done" /\ outcome[p] = "ran")
         => cache[call_hash[p]] = JsonFile(SnapshotNow(p))

C6_Witness ==
  \E p \in Procs :
    /\ FoundCorrupt(p)
    /\ cache0[p][call_hash[p]].kind = "corrupt"
    /\ pc[p] = "done" /\ outcome[p] = "ran"
    /\ cache[call_hash[p]].kind = "json"

\* C7: when the loaded entry has no record for a declared input or output,
\* the decision is to run the command; the call does not abort.
C7_MissingIsMismatch ==
  \A p \in Procs :
    ( /\ Decided(p)
      /\ previous_run[p].some
      /\ \/ \E f \in Inputs(p) : f \notin DOMAIN previous_run[p].hashes.inputs
         \/ \E f \in Outputs(p) : f \notin DOMAIN previous_run[p].hashes.outputs )
    => MustRun(p)

\* C8: the cache differs from what a call found only when the command of
\* that call ran and exited with status zero, and the call is writing or has
\* written its entry; a call that skipped, could not spawn, or failed before
\* that has left every cache file as it was.
C8_SaveOnlyAfterSuccess ==
  \A p \in Procs :
    /\ (pc[p] # "idle" /\ cache # cache0[p])
       => /\ status[p].has_code /\ status[p].code = 0
          /\ pc[p] \in {"write", "done"}
          /\ outcome[p] \in {"none", "ran", "fatal_write"}
    /\ ( /\ pc[p] = "done"
         /\ outcome[p] \in {"skip", "nospawn", "failed", "panic", "fatal_dirs",
                            "fatal_open", "fatal_inputs", "fatal_outputs",
                            "fatal_create"} )
       => cache = cache0[p]

C8_Witness ==
  \E p \in Procs :
    /\ pc[p] = "done" /\ outcome[p] = "ran"
    /\ cache # cache0[p]
    /\ cache0[p][call_hash[p]].kind = "json"
    /\ status[p].has_code /\ status[p].code = 0

\* the call loaded nothing, or an entry that an earlier call with the same
\* arguments stored
OwnEntry(p) ==
  previous_run[p].some => prev_writer[p] = call[p]

\* C9: a call ends with exit code 0 when it skipped or ran the command
\* successfully, with the exit code of the child when the command failed,
\* and with 1 on every internal error, a declared file that exists but
\* cannot be read included (stated for the calls that load what a call with
\* the same arguments stored).
C9_ExitCodes ==
  \A p \in Procs :
    (pc[p] = "done" /\ OwnEntry(p)) =>
      exit_code[p] =
        CASE outcome[p] \in {"skip", "ran"} -> 0
          [] outcome[p] = "failed" ->
               IF status[p].has_code THEN status[p].code ELSE 1
          [] OTHER -> 1

\* C10: calls that differ in the working directory, a path list or the
\* command have different fingerprints, so that no call loads the cache
\* file that a call with other arguments wrote.
C10_IdentityIsolation ==
  \A p \in Procs :
    (previous_run[p].some /\ prev_writer[p] \in CallIds)
    => Calls[prev_writer[p]] = Calls[call[p]]

\* the call declares no input and no output
EmptyLists(p) ==
  /\ call[p] # NoCall
  /\ Inputs(p) = {}
  /\ Outputs(p) = {}

\* the call found an entry in the cache file of its fingerprint
FoundEntry(p) ==
  /\ call_hash[p] # NoHash
  /\ cache0[p][call_hash[p]].kind = "json"

\* C11: a call with an empty input list and an empty output list that finds
\* an entry for its fingerprint reports skip, whatever the state of the
\* files and whatever the entry records: it never starts the command, and
\* it leaves the entry as it is, so a later call finds it again.
C11_EmptyLists ==
  \A p \in Procs :
    (EmptyLists(p) /\ FoundEntry(p))
    => /\ ~MustRun(p)
       /\ pc[p] = "done" => (outcome[p] = "skip" /\ exit_code[p] = 0)
       /\ cache = cache0[p]

C11_Witness ==
  \E p \in Procs :
    /\ EmptyLists(p) /\ FoundEntry(p)
    /\ last.id = call[p]
    /\ cache0[p][call_hash[p]] = last.entry
    /\ \E f \in Paths : fs0[p][f] # last.fsEnd[f]
    /\ pc[p] = "done" /\ outcome[p] = "skip"

\* C12: the tool never removes a cache file, whatever the file holds; and
\* a call that ran its command successfully and ends well leaves, as the
\* cache file of its fingerprint, the new snapshot: it creates the file when
\* there was none and replaces what was there otherwise.
C12_Lifecycle ==
  [][ (pc' # pc) =>
        /\ \A h \in Fingerprints :
             cache[h].kind # "nofile" => cache'[h].kind # "nofile"
        /\ \A p \in Procs :
             (pc[p] = "write" /\ pc'[p] = "done" /\ outcome'[p] = "ran")
             => cache'[call_hash[p]] = JsonFile(SnapshotNow(p)) ]_vars

\* a call replaced the entry that an earlier call with the same arguments
\* had created
C12_Witness ==
  \E p \in Procs :
    /\ pc[p] = "done" /\ outcome[p] = "ran"
    /\ cache0[p][call_hash[p]].kind = "json"
    /\ prev_writer[p] = call[p]
    /\ cache[call_hash[p]] # cache0[p][call_hash[p]]
    /\ cache[call_hash[p]] = JsonFile(SnapshotNow(p))

\* C13: every entry the tool has stored has, as the keys of its input map,
\* exactly the input paths of the call that wrote it, and as the keys of its
\* output map exactly the output paths of that call; and an entry stored by
\* the tool that a call loads under its fingerprint records a state for
\* every input and every output the loading call declares, and for no other
\* path.
C13_SnapshotKeys ==
  /\ \A h \in Fingerprints :
       (cache[h].kind = "json" /\ writer[h] \in CallIds)
       => /\ DOMAIN cache[h].hashes.inputs = Range(Calls[writer[h]].inputs)
          /\ DOMAIN cache[h].hashes.outputs = Range(Calls[writer[h]].outputs)
  /\ \A p \in Procs :
       LoadedSnapshot(p)
       => /\ DOMAIN previous_run[p].hashes.inputs = Inputs(p)
          /\ DOMAIN previous_run[p].hashes.outputs = Outputs(p)

C13_Witness ==
  \E p \in Procs :
    /\ LoadedSnapshot(p)
    /\ pc[p] = "decide"
    /\ Inputs(p) # {} /\ Outputs(p) # {}
    /\ DOMAIN previous_run[p].hashes.inputs = Inputs(p)
    /\ DOMAIN previous_run[p].hashes.outputs = Outputs(p)
    /\ cache[call_hash[p]] = JsonFile(previous_run[p].hashes)

\* C16: the entry a call has stored when it ends after a successful command
\* records, for every declared input, the state the file had before the
\* command was started, also when the command changed the file, and for
\* every declared output the state the file has after the command ended
\* with status zero.
C16_CaptureOrder ==
  \A p \in Procs :
    (pc[p] = "done" /\ outcome[p] = "ran")
    => /\ status[p].has_code /\ status[p].code = 0
       /\ cache[call_hash[p]].kind = "json"
       /\ \A f \in Inputs(p) :
            cache[call_hash[p]].hashes.inputs[f] = hash_file(fs0[p], f).hash
       /\ \A f \in Outputs(p) :
            cache[call_hash[p]].hashes.outputs[f] = hash_file(fs, f).hash

\* the command changed a file that is both input and output: the entry
\* records two states of it
C16_Witness ==
  \E p \in Procs :
    /\ pc[p] = "done" /\ outcome[p] = "ran"
    /\ \E f \in Inputs(p) \cap Outputs(p) :
         /\ fs[f] # fs0[p][f]
         /\ cache[call_hash[p]].hashes.inputs[f] = hash_file(fs0[p], f).hash
         /\ cache[call_hash[p]].hashes.outputs[f] = hash_file(fs, f).hash
         /\ cache[call_hash[p]].hashes.inputs[f] # cache[call_hash[p]].hashes.outputs[f]

\* the call of p has the arguments of the last call that ran its command
\* and saved, and it began with the files and the cache file that call left
\* behind
Repeating(p) ==
  /\ call_hash[p] # NoHash
  /\ last.id = call[p]
  /\ \A f \in Paths : fs0[p][f] = last.fsEnd[f]
  /\ cache0[p][call_hash[p]] = last.entry

\* C17: after a successful run whose command changed one of its declared
\* inputs, the stored entry records the state the input had before the
\* command, and the next call with the same arguments, with no file and no
\* cache file changed in between, decides to run the command again; such a
\* call skips only when the command of the stored run left every declared
\* input as it was when hashed.
C17_SelfChangedInput ==
  /\ last.id # NoCall
     => \A f \in Range(Calls[last.id].inputs) :
          last.entry.hashes.inputs[f] = hash_file(last.fsPre, f).hash
  /\ \A p \in Procs :
       (Repeating(p) /\ Decided(p) /\ ~(pc[p] = "done" /\ outcome[p] = "ran"))
       => (~InputsKept(p) => MustRun(p))
  /\ \A p \in Procs :
       (Repeating(p) /\ pc[p] = "done" /\ outcome[p] = "skip")
       => InputsKept(p)

\* the command changed a file that is both input and output, and the next
\* call has run the command again
C17_Witness ==
  \E p \in Procs :
    /\ Repeating(p)
    /\ \E f \in Inputs(p) \cap Outputs(p) : last.fsPre[f] # last.fsEnd[f]
    /\ pc[p] = "outputs"
    /\ status[p].has_code /\ status[p].code = 0

\* q is a call with the fingerprint of p
Rival(p, q) ==
  /\ q # p
  /\ call[q] # NoCall
  /\ Hash(Calls[call[q]]) = call_hash[p]

\* p has its fingerprint, and the other call, if there is one, has another
Undisturbed(p) ==
  /\ call_hash[p] # NoHash
  /\ \A q \in Procs : ~Rival(p, q)

\* C14: while two calls with different fingerprints run at the same time,
\* in whatever order their steps are taken, the cache file of each is
\* touched by that call alone: until the call creates it, the file is what
\* it was when the call started; what the call loaded is what that file
\* held at the start; and a call that ran its command and ended well leaves
\* in it the entry it computed, every other call leaves it as it found it
\* (but for a write that failed after the file was created).
C14_DisjointFiles ==
  \A p \in Procs :
    Undisturbed(p) =>
      /\ pc[p] \in {"load", "inputs", "decide", "run", "outputs", "create"}
         => cache[call_hash[p]] = cache0[p][call_hash[p]]
      /\ pc[p] \notin {"idle", "hash", "load"}
         => previous_run[p] = (IF cache0[p][call_hash[p]].kind = "json"
                               THEN Some(cache0[p][call_hash[p]].hashes)
                               ELSE None)
      /\ pc[p] = "write" => cache[call_hash[p]] = PartialFile
      /\ (pc[p] = "done" /\ outcome[p] = "ran")
         => cache[call_hash[p]] = JsonFile(hashes[p])
      /\ (pc[p] = "done" /\ outcome[p] = "fatal_write")
         => cache[call_hash[p]] = PartialFile
      /\ (pc[p] = "done" /\ outcome[p] \notin {"ran", "fatal_write"})
         => cache[call_hash[p]] = cache0[p][call_hash[p]]

\* a call has loaded its entry and is about to decide while a call with
\* another fingerprint, which was saving when it started, has stored its own
C14_Witness ==
  \E p \in Procs, q \in Procs :
    /\ p # q
    /\ Undisturbed(p) /\ Undisturbed(q)
    /\ pc[p] = "decide"
    /\ previous_run[p].some
    /\ cache[call_hash[p]] = cache0[p][call_hash[p]]
    /\ pc[q] = "done" /\ outcome[q] = "ran"
    /\ cache0[p][call_hash[q]].kind = "partial"
    /\ cache[call_hash[q]] = JsonFile(hashes[q])

\* p and q are two calls with one fingerprint, both ended after running
\* their command and saving
BothRan(p, q) ==
  /\ p # q
  /\ call_hash[p] # NoHash
  /\ call_hash[p] = call_hash[q]
  /\ pc[p] = "done" /\ outcome[p] = "ran"
  /\ pc[q] = "done" /\ outcome[q] = "ran"

\* C15: when two calls with the same fingerprint, running at the same time,
\* have both run their command and both ended well, the cache file of the
\* fingerprint holds the snapshot written by the call that ended last.
C15_LastWriterWins ==
  \A p \in Procs, q \in Procs :
    BothRan(p, q) => cache[call_hash[p]] = last.entry

\* C18: a call that loads the cache file of its fingerprint while another
\* call is saving it, the file created or truncated and not yet written to
\* its end, goes on with no previous run and decides to run the command: it
\* does not skip, and it does not abort in loading or deciding.
C18_PartialIsMiss ==
  \A p \in Procs :
    found[p] = "partial" =>
      /\ pc[p] \notin {"idle", "hash", "load"}
      /\ ~previous_run[p].some
      /\ Decided(p) => MustRun(p)
      /\ pc[p] = "done"
         => outcome[p] \notin {"skip", "panic", "fatal_open", "fatal_dirs"}

\* the call has run its command while the call that was saving when it
\* loaded is still about to write
C18_Witness ==
  \E p \in Procs, q \in Procs :
    /\ p # q
    /\ found[p] = "partial"
    /\ call_hash[q] = call_hash[p]
    /\ pc[q] = "write"
    /\ cache[call_hash[q]] = PartialFile
    /\ pc[p] = "outputs"
    /\ status[p].has_code /\ status[p].code = 0

====
